---- MODULE Spec2Model ----
(***************************************************************************)
(* Model of src/base/bittorrent/dbresumedatastorage.cpp: the asynchronous  *)
(* resume-data store (DBResumeDataStorage), its Worker thread, the job     *)
(* queue, the database read/write lock and the three job kinds.            *)
(*                                                                         *)
(* Threads: the Worker (Worker::run), one client thread that enqueues jobs *)
(* (Worker::addJob), reads (load, registeredTorrents) and finally destroys *)
(* the storage (~DBResumeDataStorage), and the I/O thread that runs       *)
(* doLoadAll.                                                              *)
(*                                                                         *)
(* The database is one table of rows.  `committed` is what every           *)
(* connection other than the worker's sees; `wview` is what the worker's   *)
(* connection sees (its open transaction on top of `committed`).  Without  *)
(* an open transaction SQLite runs each statement in autocommit mode.      *)
(* db.commit() is taken to succeed whenever a transaction is open.         *)
(***************************************************************************)
EXTENDS Integers, Sequences, FiniteSets, TLC

\* ------------------------------------------------------------ bounds
\* number of addJob calls the client makes
MaxJobs == 3
\* number of addJob calls the client makes on a database that has rows already
MaxBurst == 2
\* number of addJob calls the client makes besides its load calls
MaxLoadJobs == 2
\* number of doLoadAll runs
MaxLoadAll == 1
\* number of calls through a stale job pointer after the queue was popped empty
MaxStale == 1

\* ------------------------------------------------------------ universes
TorrentIDs == {"t1", "t2"}

\* The value of every field of a LoadTorrentParams other than the metadata
\* (name, category, ..., the encoded resume data), taken as one value.
DataValues == {"d1", "d2"}

\* QVariant() / SQL NULL
NULL == "NULL"

\* LoadTorrentParams: `data` stands for the fields bound to the columns of
\* StoreJob::perform's column list, `ti` tells whether ltAddTorrentParams.ti
\* (the complete metadata) is set.  The client stores one descriptor with
\* metadata and one, of other values, without.
LoadTorrentParamsSet ==
    {d \in [data : DataValues, ti : BOOLEAN] : d.ti <=> d.data = "d1"}

\* QVector<TorrentID> of distinct identifiers
Queues ==
    {<<>>} \cup {<<a>> : a \in TorrentIDs}
           \cup {<<a, b>> : <<a, b>> \in {p \in TorrentIDs \X TorrentIDs : p[1] # p[2]}}

StoreJobs == [type : {"Store"}, torrentID : TorrentIDs, resumeData : LoadTorrentParamsSet]
RemoveJobs == [type : {"Remove"}, torrentID : TorrentIDs]
StoreQueueJobs == [type : {"StoreQueue"}, queue : Queues]

\* class Job and its three subclasses
Job == StoreJobs \cup RemoveJobs \cup StoreQueueJobs

\* the jobs the client enqueues while shutdown and doLoadAll run beside it
ClientJobs ==
    {j \in Job : IF j.type = "StoreQueue" THEN j.queue = <<"t1">> ELSE j.torrentID = "t1"}

NoJob == [type |-> "None"]

\* ------------------------------------------------------------ the table
\* A row of table `torrents`: id is the INTEGER PRIMARY KEY (rowid).

Max(S) == CHOOSE x \in S : \A y \in S : y <= x

\* SQLite picks max(rowid)+1 for a new row of an INTEGER PRIMARY KEY table.
NextRowId(T) == IF T = {} THEN 1 ELSE Max({r.id : r \in T}) + 1

RowsOf(T, tid) == {r \in T : r.torrent_id = tid}

\* INSERT INTO torrents (...) VALUES (...): queue_position takes its column
\* default -1, metadata is NULL unless it is in the column list.
InsertRow(T, tid, d) ==
    T \cup {[id |-> NextRowId(T), torrent_id |-> tid, queue_position |-> -1,
             data |-> d.data, metadata |-> IF d.ti THEN d.data ELSE NULL]}

\* faulty variant: INSERT OR REPLACE, the row of the identifier made anew
OnConflictReplace(T, tid, d) == InsertRow(T \ RowsOf(T, tid), tid, d)

\* ... ON CONFLICT (torrent_id) DO UPDATE SET (columns) = (values): the
\* metadata column is part of `columns` only when p.ti is set.
OnConflictUpdate(T, tid, d) ==
    {IF r.torrent_id = tid
        THEN [r EXCEPT !.data = d.data,
                       !.metadata = IF d.ti THEN d.data ELSE @]
        ELSE r : r \in T}

\* faulty variant: a plain INSERT, without the ON CONFLICT clause
StoreJobPerformNoConflict(T, j) == InsertRow(T, j.torrentID, j.resumeData)

\* StoreJob::perform, the statement having succeeded
StoreJobPerform(T, j) ==
    IF RowsOf(T, j.torrentID) = {}
        THEN InsertRow(T, j.torrentID, j.resumeData)
        ELSE OnConflictUpdate(T, j.torrentID, j.resumeData)

\* faulty variant: DELETE without the WHERE clause
RemoveJobPerformAll(T, j) == {}

\* RemoveJob::perform, the statement having succeeded
RemoveJobPerform(T, j) == {r \in T : r.torrent_id # j.torrentID}

\* UPDATE torrents SET queue_position = pos WHERE torrent_id = tid
UpdateQueuePos(T, tid, pos) ==
    {IF r.torrent_id = tid THEN [r EXCEPT !.queue_position = pos] ELSE r : r \in T}

\* faulty variant: INSERT OR REPLACE in place of UPDATE
RECURSIVE StoreQueueJobPerformInserting(_, _, _)
StoreQueueJobPerformInserting(T, q, k) ==
    IF k = 0 THEN T
    ELSE LET B == StoreQueueJobPerformInserting(T, q, k - 1)
         IN IF RowsOf(B, q[k]) = {}
               THEN B \cup {[id |-> NextRowId(B), torrent_id |-> q[k],
                              queue_position |-> k - 1, data |-> NULL, metadata |-> NULL]}
               ELSE UpdateQueuePos(B, q[k], k - 1)

\* faulty variant: `pos` bound without being incremented
RECURSIVE StoreQueueJobPerformSamePos(_, _, _)
StoreQueueJobPerformSamePos(T, q, k) ==
    IF k = 0 THEN T
    ELSE UpdateQueuePos(StoreQueueJobPerformSamePos(T, q, k - 1), q[k], 0)

\* StoreQueueJob::perform: the first k statements succeed (k = Len(queue)
\* when none fails; the first failure ends the loop).
RECURSIVE StoreQueueJobPerform(_, _, _)
StoreQueueJobPerform(T, q, k) ==
    IF k = 0 THEN T
    ELSE UpdateQueuePos(StoreQueueJobPerform(T, q, k - 1), q[k], k - 1)

\* number of statements a job executes
NumStatements(j) == IF j.type = "StoreQueue" THEN Len(j.queue) ELSE 1

\* Job::perform(db): k statements succeed.  A failed job is logged and
\* leaves what its earlier statements did.
Perform(T, j, k) ==
    CASE j.type = "Store" -> IF k = 1 THEN StoreJobPerform(T, j) ELSE T
      [] j.type = "Remove" -> IF k = 1 THEN RemoveJobPerform(T, j) ELSE T
      [] j.type = "StoreQueue" -> StoreQueueJobPerform(T, j.queue, k)

\* the possible numbers of successful statements of a job
Outcomes(j) == IF j.type = "StoreQueue" THEN 0..Len(j.queue) ELSE {0, 1}

\* SELECT ... ORDER BY queue_position: rows in ascending queue position,
\* rows of equal position in rowid order (SQLite's index / scan order).
Before(r, s) ==
    \/ r.queue_position < s.queue_position
    \/ r.queue_position = s.queue_position /\ r.id <= s.id

RECURSIVE OrderByQueuePosition(_)
OrderByQueuePosition(T) ==
    IF T = {} THEN <<>>
    ELSE LET first == CHOOSE r \in T : \A s \in T : Before(r, s)
         IN <<first>> \o OrderByQueuePosition(T \ {first})

\* faulty variant: the ORDER BY clause left out (rows in rowid order)
RECURSIVE OrderByRowId(_)
OrderByRowId(T) ==
    IF T = {} THEN <<>>
    ELSE LET first == CHOOSE r \in T : \A s \in T : r.id <= s.id
         IN <<first>> \o OrderByRowId(T \ {first})

IdsOf(rows) == [i \in 1..Len(rows) |-> rows[i].torrent_id]

\* DBResumeDataStorage::registeredTorrents on table T
RegisteredTorrents(T) == IdsOf(OrderByQueuePosition(T))

NotFound == [found |-> FALSE]

\* the SELECT of DBResumeDataStorage::load on table T: the row, or "Not found."
SelectTorrent(T, tid) ==
    IF RowsOf(T, tid) = {} THEN NotFound
    ELSE LET r == CHOOSE r \in RowsOf(T, tid) : TRUE
         IN [found |-> TRUE, data |-> r.data, metadata |-> r.metadata]

\* ------------------------------------------------------------ state
VARIABLES
    jobs,                   \* Worker::m_jobs
    queueCorrupt,           \* m_jobs was popped while empty (its size underflowed)
    jobsMutex,              \* Worker::m_jobsMutex: "free" or its holder
    waiting,                \* the worker is a waiter of m_waitCondition
    wakeups,                \* wake-ups of m_waitCondition not yet consumed
    interruptionRequested,  \* QThread's interruption flag of the worker
    wpc,                    \* the worker's position in Worker::run
    job,                    \* Worker::run's local `job`
    transactedJobsCount,    \* Worker::run's local counter
    readerCount,            \* m_dbLock: readers holding it
    writerCount,            \* m_dbLock: writers holding it
    inTransaction,          \* the worker's connection has an open transaction
    committed,              \* table torrents as committed
    wview,                  \* table torrents as the worker's connection sees it
    cpc,                    \* the client thread's position
    loaded,                 \* what the client's last load() returned
    lpc,                    \* the I/O thread's position in doLoadAll
    loadAllRuns,            \* doLoadAll runs completed
    events,                 \* loadStarted / onResumeDataLoaded / loadFinished, in order
    enqueued,               \* history: the jobs pushed by addJob, in order
    performed,              \* history: the jobs performed, in order, with outcome
    beginFailed,            \* history: db.transaction() failed in Worker::run
    params,                 \* codec: the LoadTorrentParams given to a StoreJob
    row,                    \* codec: the row of table torrents the job writes and load reads
    result,                 \* codec: what load() returned
    kpc,                    \* codec: position in the store-then-load sequence
    file,                   \* schema: the database file the constructor opens
    file0,                  \* schema: that file as it was before the constructor ran
    opc,                    \* schema: the constructor's position
    fromVersion             \* schema: the constructor's local dbVersion

vars == <<jobs, queueCorrupt, jobsMutex, waiting, wakeups, interruptionRequested,
          wpc, job, transactedJobsCount, readerCount, writerCount, inTransaction,
          committed, wview, cpc, loaded, lpc, loadAllRuns, events, enqueued,
          performed, beginFailed, params, row, result, kpc, file, file0, opc,
          fromVersion>>

queueVars == <<jobs, queueCorrupt, jobsMutex, waiting, wakeups>>
lockVars == <<readerCount, writerCount>>
dbVars == <<inTransaction, committed, wview>>
workerVars == <<wpc, job, transactedJobsCount, beginFailed>>
clientVars == <<cpc, loaded, interruptionRequested>>
loaderVars == <<lpc, loadAllRuns, events>>
histVars == <<enqueued, performed>>
codecVars == <<params, row, result, kpc>>
schemaVars == <<file, file0, opc, fromVersion>>
otherVars == <<codecVars, schemaVars>>
engineVars == <<queueVars, lockVars, dbVars, workerVars, clientVars, loaderVars, histVars>>

NoLoad == [id |-> "none"]

NoParams == [valid |-> FALSE]
NoRow == [present |-> FALSE]
NoResult == [kind |-> "none"]
NoFile == [exists |-> FALSE]

\* The state when DBResumeDataStorage's constructor returns: the database is
\* open and at DB_VERSION, the worker thread is started and has not yet locked
\* m_jobsMutex.
EngineInit(T) ==
    /\ jobs = <<>>
    /\ queueCorrupt = FALSE
    /\ jobsMutex = "free"
    /\ waiting = FALSE
    /\ wakeups = 0
    /\ interruptionRequested = FALSE
    /\ wpc = "lock"
    /\ job = NoJob
    /\ transactedJobsCount = 0
    /\ readerCount = 0
    /\ writerCount = 0
    /\ inTransaction = FALSE
    /\ committed = T
    /\ wview = T
    /\ cpc = "idle"
    /\ loaded = NoLoad
    /\ lpc = "idle"
    /\ loadAllRuns = 0
    /\ events = <<>>
    /\ enqueued = <<>>
    /\ performed = <<>>
    /\ beginFailed = FALSE

\* no store-then-load sequence is under way
CodecOff ==
    /\ params = NoParams
    /\ row = NoRow
    /\ result = NoResult
    /\ kpc = "off"

\* the constructor has returned
SchemaOff ==
    /\ file = NoFile
    /\ file0 = NoFile
    /\ opc = "off"
    /\ fromVersion = 0

InitWith(T) == EngineInit(T) /\ CodecOff /\ SchemaOff

\* a database created by createDB: no rows
Init == InitWith({})

\* Tables a database file holds when it is opened again: none, or the rows
\* earlier runs stored (with and without metadata) and gave queue positions.
InitTables ==
    {{},
     {[id |-> 1, torrent_id |-> "t1", queue_position |-> 0, data |-> "d1", metadata |-> "d1"],
      [id |-> 2, torrent_id |-> "t2", queue_position |-> 1, data |-> "d1", metadata |-> NULL]}}

InitExisting == \E T \in InitTables : InitWith(T)

\* The process is running: no thread has aborted it.
Running == wpc # "crashed"

\* ------------------------------------------------------------ m_dbLock
\* QReadWriteLock::unlock() releases whatever hold the lock has: the writer's
\* if there is one, else one reader's.
UnlockedReaders == IF writerCount = 1 THEN readerCount
                   ELSE IF readerCount > 0 THEN readerCount - 1 ELSE 0

\* unlock() of a lock nobody holds: "an error" by Qt's documentation; a build
\* with assertions aborts, a build without them returns.
UnlockOfUnlocked == writerCount = 0 /\ readerCount = 0

\* QWaitCondition::wakeAll(): every current waiter is woken, a call without
\* waiters is lost.
WakeAll == wakeups' = IF waiting THEN 1 ELSE wakeups

\* std::queue::empty() as Worker::run reads it
JobsEmpty == jobs = <<>> /\ ~queueCorrupt

\* ------------------------------------------------------------ Worker::run
\* m_jobsMutex.lock(); if (m_jobs.empty()) ...
WLock ==
    /\ wpc = "lock"
    /\ jobsMutex = "free"
    /\ jobsMutex' = "worker"
    /\ wpc' = IF JobsEmpty
                THEN (IF transactedJobsCount > 0 THEN "commit" ELSE "checkInterruption")
                ELSE "dequeue"
    /\ UNCHANGED <<jobs, queueCorrupt, waiting, wakeups, job, transactedJobsCount,
                   beginFailed, lockVars, dbVars, clientVars, loaderVars, histVars>>
    /\ UNCHANGED otherVars

\* faulty variant: the commit without m_dbLock.unlock()
WCommitNoUnlock ==
    /\ wpc = "commit"
    /\ committed' = wview
    /\ inTransaction' = FALSE
    /\ UNCHANGED wview
    /\ UNCHANGED lockVars
    /\ transactedJobsCount' = 0
    /\ wpc' = "checkInterruption"
    /\ UNCHANGED <<queueVars, job, beginFailed, clientVars, loaderVars, histVars>>
    /\ UNCHANGED otherVars

\* db.commit(); m_dbLock.unlock(); transactedJobsCount = 0;
\* commit without an open transaction fails and its result is ignored.
WCommit ==
    /\ wpc = "commit"
    /\ committed' = wview
    /\ inTransaction' = FALSE
    /\ UNCHANGED wview
    /\ readerCount' = UnlockedReaders
    /\ writerCount' = 0
    /\ transactedJobsCount' = 0
    /\ \/ wpc' = "checkInterruption"
       \/ UnlockOfUnlocked /\ wpc' = "crashed"
    /\ UNCHANGED <<queueVars, job, beginFailed, clientVars, loaderVars, histVars>>
    /\ UNCHANGED otherVars

\* if (isInterruptionRequested()) { m_jobsMutex.unlock(); break; }
WCheckInterruption ==
    /\ wpc = "checkInterruption"
    /\ IF interruptionRequested
          THEN jobsMutex' = "free" /\ wpc' = "done"
          ELSE jobsMutex' = jobsMutex /\ wpc' = "wait"
    /\ UNCHANGED <<jobs, queueCorrupt, waiting, wakeups, job, transactedJobsCount,
                   beginFailed, lockVars, dbVars, clientVars, loaderVars, histVars>>
    /\ UNCHANGED otherVars

\* m_waitCondition.wait(&m_jobsMutex): registers as waiter and releases the mutex
WWait ==
    /\ wpc = "wait"
    /\ jobsMutex' = "free"
    /\ waiting' = TRUE
    /\ wpc' = "waiting"
    /\ UNCHANGED <<jobs, queueCorrupt, wakeups, job, transactedJobsCount,
                   beginFailed, lockVars, dbVars, clientVars, loaderVars, histVars>>
    /\ UNCHANGED otherVars

\* ... is woken by a wakeAll()
WWake ==
    /\ wpc = "waiting"
    /\ wakeups > 0
    /\ wakeups' = 0
    /\ waiting' = FALSE
    /\ wpc' = "woken"
    /\ UNCHANGED <<jobs, queueCorrupt, jobsMutex, job, transactedJobsCount,
                   beginFailed, lockVars, dbVars, clientVars, loaderVars, histVars>>
    /\ UNCHANGED otherVars

\* ... re-locks the mutex and returns; if (isInterruptionRequested()) { unlock; break; }
WWoken ==
    /\ wpc = "woken"
    /\ jobsMutex = "free"
    /\ IF interruptionRequested
          THEN jobsMutex' = "free" /\ wpc' = "done"
          ELSE jobsMutex' = "worker" /\ wpc' = "lockForWrite"
    /\ UNCHANGED <<jobs, queueCorrupt, waiting, wakeups, job, transactedJobsCount,
                   beginFailed, lockVars, dbVars, clientVars, loaderVars, histVars>>
    /\ UNCHANGED otherVars

\* m_dbLock.lockForWrite()
WLockForWrite ==
    /\ wpc = "lockForWrite"
    /\ readerCount = 0
    /\ writerCount = 0
    /\ writerCount' = 1
    /\ wpc' = "transaction"
    /\ UNCHANGED <<queueVars, readerCount, job, transactedJobsCount, beginFailed,
                   dbVars, clientVars, loaderVars, histVars>>
    /\ UNCHANGED otherVars

\* if (!db.transaction()) { LogMsg; m_dbLock.unlock(); break; }
WTransaction ==
    /\ wpc = "transaction"
    /\ \/ /\ inTransaction' = TRUE
          /\ wpc' = "dequeue"
          /\ UNCHANGED <<lockVars, beginFailed>>
       \/ /\ UNCHANGED inTransaction
          /\ readerCount' = UnlockedReaders
          /\ writerCount' = 0
          /\ beginFailed' = TRUE
          /\ wpc' = "done"
    /\ UNCHANGED <<queueVars, job, transactedJobsCount, committed, wview,
                   clientVars, loaderVars, histVars>>
    /\ UNCHANGED otherVars

\* job = std::move(m_jobs.front()); m_jobs.pop(); m_jobsMutex.unlock();
\* On an empty queue front() and pop() are undefined: the slot read is
\* indeterminate storage, so the call that follows either faults or runs a
\* job that was performed before, and the queue's size has underflowed.
StaleJobs == {performed[i].job : i \in 1..Len(performed)}

NumStale == Cardinality({i \in 1..Len(performed) : performed[i].stale})

WDequeue ==
    /\ wpc = "dequeue"
    /\ IF jobs # <<>> /\ ~queueCorrupt
          THEN /\ job' = Head(jobs)
               /\ jobs' = Tail(jobs)
               /\ jobsMutex' = "free"
               /\ wpc' = "perform"
               /\ UNCHANGED queueCorrupt
          ELSE \/ /\ wpc' = "crashed"
                  /\ UNCHANGED <<jobs, queueCorrupt, jobsMutex, job>>
               \/ /\ NumStale < MaxStale
                  /\ \E j \in StaleJobs : job' = j
                  /\ queueCorrupt' = TRUE
                  /\ jobsMutex' = "free"
                  /\ wpc' = "performStale"
                  /\ UNCHANGED jobs
    /\ UNCHANGED <<waiting, wakeups, transactedJobsCount, beginFailed, lockVars,
                   dbVars, clientVars, loaderVars, histVars>>
    /\ UNCHANGED otherVars

\* faulty variant: a failed job rolls the transaction back
WPerformRollingBack ==
    /\ wpc \in {"perform", "performStale"}
    /\ \E k \in Outcomes(job) :
          /\ IF inTransaction
                THEN /\ wview' = (IF k < NumStatements(job) THEN committed
                                  ELSE Perform(wview, job, k))
                     /\ UNCHANGED committed
                ELSE committed' = Perform(committed, job, k) /\ wview' = committed'
          /\ performed' = Append(performed,
                                 [job |-> job, done |-> k, stale |-> wpc = "performStale"])
    /\ transactedJobsCount' = transactedJobsCount + 1
    /\ wpc' = "lock"
    /\ UNCHANGED <<queueVars, job, beginFailed, lockVars, inTransaction, enqueued,
                   clientVars, loaderVars>>
    /\ UNCHANGED otherVars

\* job->perform(db); ++transactedJobsCount;
WPerform ==
    /\ wpc \in {"perform", "performStale"}
    /\ \E k \in Outcomes(job) :
          /\ IF inTransaction
                THEN wview' = Perform(wview, job, k) /\ UNCHANGED committed
                ELSE committed' = Perform(committed, job, k) /\ wview' = committed'
          /\ performed' = Append(performed,
                                 [job |-> job, done |-> k, stale |-> wpc = "performStale"])
    /\ transactedJobsCount' = transactedJobsCount + 1
    /\ wpc' = "lock"
    /\ UNCHANGED <<queueVars, job, beginFailed, lockVars, inTransaction, enqueued,
                   clientVars, loaderVars>>
    /\ UNCHANGED otherVars

WorkerNext ==
    \/ WLock \/ WCommit \/ WCheckInterruption \/ WWait \/ WWake \/ WWoken
    \/ WLockForWrite \/ WTransaction \/ WDequeue \/ WPerform

\* ------------------------------------------------------------ the client
\* Worker::addJob: m_jobsMutex.lock(); m_jobs.push(job); m_jobsMutex.unlock();
AddJob(U, max) ==
    /\ Running
    /\ cpc = "idle"
    /\ Len(enqueued) < max
    /\ jobsMutex = "free"
    /\ \E j \in U :
          /\ jobs' = Append(jobs, j)
          /\ enqueued' = Append(enqueued, j)
    /\ cpc' = "addJobWake"
    /\ UNCHANGED <<queueCorrupt, jobsMutex, waiting, wakeups, workerVars, lockVars,
                   dbVars, loaded, interruptionRequested, loaderVars, performed>>
    /\ UNCHANGED otherVars

\* Worker::store / remove / storeQueue -> addJob
CAddJob == AddJob(ClientJobs, MaxJobs)

\* the same, the client also calling load()
CAddJobLoad == AddJob(ClientJobs, MaxLoadJobs)

\* the same with any job, on a database that may hold rows
CAddJobAny == AddJob(Job, MaxBurst)

\* Worker::addJob: m_waitCondition.wakeAll(); the call returns
CAddJobWake ==
    /\ Running
    /\ cpc = "addJobWake"
    /\ WakeAll
    /\ cpc' = "idle"
    /\ UNCHANGED <<jobs, queueCorrupt, jobsMutex, waiting, workerVars, lockVars,
                   dbVars, loaded, interruptionRequested, loaderVars, histVars>>
    /\ UNCHANGED otherVars

\* faulty variant: load() running its SELECT on the worker's connection
LoadViewOfWorker == wview

\* DBResumeDataStorage::load(id): one SELECT on the main connection
\* (DB_CONNECTION_NAME), which takes no lock of m_dbLock and sees the
\* committed table.
LoadView == committed

CLoad ==
    /\ Running
    /\ cpc = "idle"
    /\ \E tid \in TorrentIDs :
          loaded' = [id |-> tid, result |-> SelectTorrent(LoadView, tid)]
    /\ cpc' = "loaded"
    /\ UNCHANGED <<queueVars, workerVars, lockVars, dbVars,
                   interruptionRequested, loaderVars, histVars>>
    /\ UNCHANGED otherVars

\* the caller takes load()'s result
CLoadReturn ==
    /\ Running
    /\ cpc = "loaded"
    /\ loaded' = NoLoad
    /\ cpc' = "idle"
    /\ UNCHANGED <<queueVars, workerVars, lockVars, dbVars,
                   interruptionRequested, loaderVars, histVars>>
    /\ UNCHANGED otherVars

\* ~DBResumeDataStorage -> Worker::requestInterruption: QThread::requestInterruption()
CRequestInterruption ==
    /\ Running
    /\ cpc = "idle"
    /\ interruptionRequested' = TRUE
    /\ cpc' = "interruptWake"
    /\ UNCHANGED <<queueVars, workerVars, lockVars, dbVars, loaded, loaderVars, histVars>>
    /\ UNCHANGED otherVars

\* Worker::requestInterruption: m_waitCondition.wakeAll()
CInterruptWake ==
    /\ Running
    /\ cpc = "interruptWake"
    /\ WakeAll
    /\ cpc' = "wait"
    /\ UNCHANGED <<jobs, queueCorrupt, jobsMutex, waiting, workerVars, lockVars,
                   dbVars, loaded, interruptionRequested, loaderVars, histVars>>
    /\ UNCHANGED otherVars

\* ~DBResumeDataStorage: m_asyncWorker->wait() returns once run() has returned
CWait ==
    /\ cpc = "wait"
    /\ wpc = "done"
    /\ cpc' = "closed"
    /\ UNCHANGED <<queueVars, workerVars, lockVars, dbVars, loaded,
                   interruptionRequested, loaderVars, histVars>>
    /\ UNCHANGED otherVars

ClientNext ==
    \/ CAddJob \/ CAddJobWake \/ CRequestInterruption \/ CInterruptWake \/ CWait

\* ------------------------------------------------------------ doLoadAll
\* const QReadLocker locker {&m_dbLock};
LLockForRead ==
    /\ Running
    /\ lpc = "idle"
    /\ cpc # "closed"
    /\ loadAllRuns < MaxLoadAll
    /\ writerCount = 0
    /\ readerCount' = readerCount + 1
    /\ lpc' = "selectIDs"
    /\ UNCHANGED <<queueVars, workerVars, writerCount, dbVars, clientVars,
                   loadAllRuns, events, histVars>>
    /\ UNCHANGED otherVars

\* query.exec(selectTorrentIDStatement); emit loadStarted(registeredTorrents);
LSelectIDs ==
    /\ Running
    /\ lpc = "selectIDs"
    /\ events' = Append(events, [type |-> "loadStarted",
                                 ids |-> RegisteredTorrents(committed)])
    /\ lpc' = "selectAll"
    /\ UNCHANGED <<queueVars, workerVars, lockVars, dbVars, clientVars,
                   loadAllRuns, histVars>>
    /\ UNCHANGED otherVars

\* query.exec(selectStatement); while (query.next()) onResumeDataLoaded(...);
LSelectAll ==
    /\ Running
    /\ lpc = "selectAll"
    /\ LET ids == IdsOf(OrderByQueuePosition(committed))
       IN events' = events \o [i \in 1..Len(ids) |->
                                  [type |-> "resumeDataLoaded", id |-> ids[i]]]
    /\ lpc' = "unlock"
    /\ UNCHANGED <<queueVars, workerVars, lockVars, dbVars, clientVars,
                   loadAllRuns, histVars>>
    /\ UNCHANGED otherVars

\* the end of the block: ~QReadLocker unlocks m_dbLock
LUnlock ==
    /\ Running
    /\ lpc = "unlock"
    /\ readerCount' = UnlockedReaders
    /\ writerCount' = 0
    /\ lpc' = "loadFinished"
    /\ \/ UNCHANGED wpc
       \/ UnlockOfUnlocked /\ wpc' = "crashed"
    /\ UNCHANGED <<queueVars, job, transactedJobsCount, beginFailed, dbVars,
                   clientVars, loadAllRuns, events, histVars>>
    /\ UNCHANGED otherVars

\* emit loadFinished();
LLoadFinished ==
    /\ Running
    /\ lpc = "loadFinished"
    /\ events' = Append(events, [type |-> "loadFinished"])
    /\ loadAllRuns' = loadAllRuns + 1
    /\ lpc' = "idle"
    /\ UNCHANGED <<queueVars, workerVars, lockVars, dbVars, clientVars, histVars>>
    /\ UNCHANGED otherVars

\* throw RuntimeError: db.open() failed (before the read lock is taken) or one
\* of the two queries failed (the unwinding runs ~QReadLocker); doLoadAll is
\* left without loadFinished
LThrow ==
    /\ Running
    /\ lpc \in {"idle", "selectIDs", "selectAll"}
    /\ lpc = "idle" => (cpc # "closed" /\ loadAllRuns < MaxLoadAll)
    /\ IF lpc = "idle"
          THEN UNCHANGED <<lockVars, wpc>>
          ELSE /\ readerCount' = UnlockedReaders
               /\ writerCount' = 0
               /\ \/ UNCHANGED wpc
                  \/ UnlockOfUnlocked /\ wpc' = "crashed"
    /\ lpc' = "thrown"
    /\ UNCHANGED <<queueVars, job, transactedJobsCount, beginFailed, dbVars,
                   clientVars, loadAllRuns, events, histVars>>
    /\ UNCHANGED otherVars

LoaderNext ==
    \/ LLockForRead \/ LSelectIDs \/ LSelectAll \/ LUnlock \/ LLoadFinished \/ LThrow

\* ------------------------------------------------------------ column values
\* A value bound to a placeholder or read from a column: SQL NULL or a value.
\* A placeholder that is never bound is NULL.
SqlNull == [null |-> TRUE]

SqlValue(v) == [null |-> FALSE, v |-> v]

\* QVariant::toString() of a TEXT column (a QString is a sequence of
\* characters): NULL reads as the empty string
ValueToString(c) == IF c.null THEN <<>> ELSE c.v

\* QVariant::toInt() / toBool() of an INTEGER column: NULL reads as 0
ValueToInt(c) == IF c.null THEN 0 ELSE c.v

ValueToBool(c) == ValueToInt(c) # 0

\* a bool bound to an INTEGER column
BoolToInt(b) == IF b THEN 1 ELSE 0

\* QVariant::toByteArray() of a BLOB column: NULL reads as the empty array
ValueToByteArray(c) == IF c.null THEN <<>> ELSE c.v

\* static_cast<int>(x / d): the quotient truncated toward zero
TruncDiv(x, d) == IF x >= 0 THEN x \div d ELSE -((-x) \div d)

\* ------------------------------------------------------------ strings
\* QStringList::join / QString::split on the separator u','
Comma == ","

\* QString::operator< on the strings of the model: by length, then by the
\* order TLC's CHOOSE fixes
RECURSIVE SortedTags(_)
SortedTags(S) ==
    IF S = {} THEN <<>>
    ELSE LET first == CHOOSE t \in S : \A u \in S : Len(t) <= Len(u)
         IN <<first>> \o SortedTags(S \ {first})

RECURSIVE Join(_)
Join(list) ==
    IF list = <<>> THEN <<>>
    ELSE IF Len(list) = 1 THEN list[1]
    ELSE list[1] \o <<Comma>> \o Join(Tail(list))

\* QString::split(u','): the parts between separators, empty parts kept
RECURSIVE Split(_)
Split(str) ==
    IF \A i \in 1..Len(str) : str[i] # Comma THEN <<str>>
    ELSE LET i == CHOOSE i \in 1..Len(str) :
                      str[i] = Comma /\ \A k \in 1..(i - 1) : str[k] # Comma
         IN <<SubSeq(str, 1, i - 1)>> \o Split(SubSeq(str, i + 1, Len(str)))

\* ------------------------------------------------------------ enumerations
\* Utils::String::fromEnum / toEnum: an enumerator is persisted as its name;
\* a name that is no enumerator's reads as the default.  Enumerators are
\* their ordinals, counted from 1.
TorrentContentLayoutNames == <<"Original", "Subfolder", "NoSubfolder">>
TorrentOperatingModeNames == <<"AutoManaged", "Forced">>
StopConditionNames == <<"None", "MetadataReceived", "FilesChecked">>

FromEnum(names, e) == names[e]

ToEnum(names, str, default) ==
    IF \E e \in 1..Len(names) : names[e] = str
        THEN CHOOSE e \in 1..Len(names) : names[e] = str
        ELSE default

\* the enumerators the code names
Original == 1
AutoManaged == 1
StopConditionNone == 1
FilesChecked == 3

\* ------------------------------------------------------------ paths
\* Profile::toPortablePath / fromPortablePath: a path below the profile's
\* base directory is persisted relative to it; the empty path and the paths
\* elsewhere are persisted as they are.
EmptyPath == <<>>
Paths == {EmptyPath, <<"/base", "/dl">>, <<"/mnt", "/dl">>}

ToPortablePath(path) ==
    IF path # EmptyPath /\ Head(path) = "/base" THEN Tail(path) ELSE path

FromPortablePath(path) ==
    IF path # EmptyPath /\ Head(path) \notin {"/base", "/mnt"}
        THEN <<"/base">> \o path
        ELSE path

\* ------------------------------------------------------------ resume blobs
\* lt::add_torrent_params as far as the code reads or writes it: the flags
\* paused, auto_managed and stop_when_ready, save_path, and whether ti (the
\* torrent's metadata) is set.
TorrentFlags == {"paused", "auto_managed", "stop_when_ready"}

\* lt::add_torrent_params {}: what read_resume_data returns on an error
DefaultAddTorrentParams ==
    [flags |-> {"paused", "auto_managed"}, save_path |-> EmptyPath, ti |-> FALSE]

\* lt::write_resume_data(p): the dictionary of p's fields, with the metadata
\* ("info" and its companions) when p.ti is set
WriteResumeData(p) ==
    <<[key |-> "flags", val |-> p.flags], [key |-> "save_path", val |-> p.save_path]>>
        \o (IF p.ti THEN <<[key |-> "info", val |-> "metadata"]>> ELSE <<>>)

HasKey(dict, key) == \E i \in 1..Len(dict) : dict[i].key = key

Lookup(dict, key) == dict[CHOOSE i \in 1..Len(dict) : dict[i].key = key].val

\* dictionary_type::extract(key): the entry taken out of the dictionary
Extract(dict, key) == SelectSeq(dict, LAMBDA e : e.key # key)

Extracted(dict, key) == SelectSeq(dict, LAMBDA e : e.key = key)

\* lt::bencode(out, entry): a dictionary is written between "d" and "e"
Bencode(dict) ==
    <<[key |-> "d", val |-> ""]>> \o dict \o <<[key |-> "e", val |-> ""]>>

\* lt::bdecode(buffer, ec): anything that is not one complete dictionary sets
\* ec and gives the empty node
Bdecode(bytes) ==
    IF Len(bytes) >= 2 /\ bytes[1].key = "d" /\ bytes[Len(bytes)].key = "e"
        THEN [ec |-> FALSE, dict |-> SubSeq(bytes, 2, Len(bytes) - 1)]
        ELSE [ec |-> TRUE, dict |-> <<>>]

\* lt::read_resume_data(node, ec): a node that is no resume dictionary sets ec
\* and gives default parameters
ReadResumeData(node) ==
    IF node.ec \/ ~HasKey(node.dict, "flags") \/ ~HasKey(node.dict, "save_path")
        THEN [ec |-> TRUE, p |-> DefaultAddTorrentParams]
        ELSE [ec |-> FALSE,
              p |-> [flags |-> Lookup(node.dict, "flags"),
                     save_path |-> Lookup(node.dict, "save_path"),
                     ti |-> HasKey(node.dict, "info")]]

\* ------------------------------------------------------------ StoreJob, column by column
\* A LoadTorrentParams has the fields name, category, tags, savePath,
\* downloadPath, contentLayout, operatingMode, useAutoTMM,
\* firstLastPiecePriority, hasFinishedStatus, stopped, stopCondition,
\* ratioLimit (counted in ten-thousandths), seedingTimeLimit and
\* ltAddTorrentParams.

\* faulty variant: auto_managed left as it was for a torrent that is not stopped
NormalizedFlagsKeepAuto(D) ==
    LET flags == D.ltAddTorrentParams.flags
    IN IF D.stopped THEN (flags \cup {"paused"}) \ {"auto_managed"}
       ELSE IF D.operatingMode = AutoManaged THEN flags
       ELSE flags \ {"paused", "auto_managed"}

\* StoreJob::perform: the flags of the copy `p` after the adjustment
NormalizedFlags(D) ==
    LET flags == D.ltAddTorrentParams.flags
    IN IF D.stopped THEN (flags \cup {"paused"}) \ {"auto_managed"}
       ELSE IF D.operatingMode = AutoManaged THEN flags \cup {"auto_managed"}
       ELSE flags \ {"paused", "auto_managed"}

\* StoreJob::perform: the copy `p` that is written
AdjustedParams(D) ==
    [flags |-> NormalizedFlags(D),
     save_path |-> ToPortablePath(D.ltAddTorrentParams.save_path),
     ti |-> D.ltAddTorrentParams.ti]

\* Ratio limits are counted in ten-thousandths.  The limits whose double,
\* multiplied by 1000, lies below the exact product:
\* 2.01 * 1000 = 2009.9999999999998, 1.001 * 1000 = 1000.9999999999999
ProductBelow == {20100, 10010}

\* static_cast<int>(ratioLimit * 1000): the double product, truncated
RatioToInt(r) ==
    IF r \in ProductBelow THEN TruncDiv(r, 10) - 1 ELSE TruncDiv(r, 10)

\* StoreJob::perform: the value bound to the tags column
BoundTags(tags) ==
    IF tags = {} THEN SqlNull ELSE SqlValue(Join(SortedTags(tags)))

\* StoreJob::perform: the values bound to the statement's placeholders; the
\* placeholders of the two path columns stay unbound under useAutoTMM.
StoreJobValues(D) ==
    LET p == AdjustedParams(D)
        data == WriteResumeData(p)
    IN [name |-> SqlValue(D.name),
        category |-> SqlValue(D.category),
        tags |-> BoundTags(D.tags),
        content_layout |-> SqlValue(FromEnum(TorrentContentLayoutNames, D.contentLayout)),
        ratio_limit |-> SqlValue(RatioToInt(D.ratioLimit)),
        seeding_time_limit |-> SqlValue(D.seedingTimeLimit),
        has_outer_pieces_priority |-> SqlValue(BoolToInt(D.firstLastPiecePriority)),
        has_seed_status |-> SqlValue(BoolToInt(D.hasFinishedStatus)),
        operating_mode |-> SqlValue(FromEnum(TorrentOperatingModeNames, D.operatingMode)),
        stopped |-> SqlValue(BoolToInt(D.stopped)),
        stop_condition |-> SqlValue(FromEnum(StopConditionNames, D.stopCondition)),
        target_save_path |-> IF D.useAutoTMM THEN SqlNull
                             ELSE SqlValue(ToPortablePath(D.savePath)),
        download_path |-> IF D.useAutoTMM THEN SqlNull
                          ELSE SqlValue(ToPortablePath(D.downloadPath)),
        libtorrent_resume_data |->
            SqlValue(Bencode(IF p.ti THEN Extract(data, "info") ELSE data)),
        metadata |-> IF p.ti THEN SqlValue(Bencode(Extracted(data, "info")))
                     ELSE SqlNull]

\* The row the statement leaves: INSERT gives queue_position its default and
\* metadata NULL unless it is in the column list; ON CONFLICT (torrent_id) DO
\* UPDATE sets the listed columns and keeps the others.
StoreJobRow(old, D) ==
    LET v == StoreJobValues(D)
    IN [present |-> TRUE,
        queue_position |-> IF old.present THEN old.queue_position ELSE -1,
        name |-> v.name, category |-> v.category, tags |-> v.tags,
        content_layout |-> v.content_layout, ratio_limit |-> v.ratio_limit,
        seeding_time_limit |-> v.seeding_time_limit,
        has_outer_pieces_priority |-> v.has_outer_pieces_priority,
        has_seed_status |-> v.has_seed_status,
        operating_mode |-> v.operating_mode, stopped |-> v.stopped,
        stop_condition |-> v.stop_condition,
        target_save_path |-> v.target_save_path,
        download_path |-> v.download_path,
        libtorrent_resume_data |-> v.libtorrent_resume_data,
        metadata |-> IF D.ltAddTorrentParams.ti THEN v.metadata
                     ELSE IF old.present THEN old.metadata ELSE SqlNull]

\* ------------------------------------------------------------ load, column by column
Range(seq) == {seq[i] : i \in 1..Len(seq)}

\* parseQueryResultRow: the error code of bdecode and read_resume_data is
\* never looked at.
ParseQueryResultRow(r) ==
    LET tagsData == ValueToString(r.tags)
        savePath == FromPortablePath(ValueToString(r.target_save_path))
        useAutoTMM == savePath = EmptyPath
        resumeDataRoot == Bdecode(ValueToByteArray(r.libtorrent_resume_data))
        p == ReadResumeData(resumeDataRoot).p
        bencodedMetadata == ValueToByteArray(r.metadata)
    IN [name |-> ValueToString(r.name),
        category |-> ValueToString(r.category),
        tags |-> IF tagsData = <<>> THEN {} ELSE Range(Split(tagsData)),
        hasFinishedStatus |-> ValueToBool(r.has_seed_status),
        firstLastPiecePriority |-> ValueToBool(r.has_outer_pieces_priority),
        ratioLimit |-> ValueToInt(r.ratio_limit) * 10,
        seedingTimeLimit |-> ValueToInt(r.seeding_time_limit),
        contentLayout |-> ToEnum(TorrentContentLayoutNames, r.content_layout.v, Original),
        operatingMode |-> ToEnum(TorrentOperatingModeNames, r.operating_mode.v, AutoManaged),
        stopped |-> ValueToBool(r.stopped),
        stopCondition |-> IF "stop_when_ready" \in p.flags THEN FilesChecked
                          ELSE ToEnum(StopConditionNames, r.stop_condition.v, StopConditionNone),
        savePath |-> savePath,
        useAutoTMM |-> useAutoTMM,
        downloadPath |-> IF useAutoTMM THEN EmptyPath
                         ELSE FromPortablePath(ValueToString(r.download_path)),
        ltAddTorrentParams |->
            [flags |-> p.flags \ {"stop_when_ready"},
             save_path |-> FromPortablePath(p.save_path),
             ti |-> IF bencodedMetadata # <<>> THEN TRUE ELSE p.ti]]

\* DBResumeDataStorage::load on the row the SELECT finds, if any
Load(r) ==
    IF ~r.present THEN [kind |-> "error", message |-> "Not found."]
    ELSE [kind |-> "record", params |-> ParseQueryResultRow(r)]

\* ------------------------------------------------------------ descriptors and rows
BaseDescriptor ==
    [name |-> <<"n">>, category |-> <<"c">>, tags |-> {<<"a">>},
     savePath |-> <<"/mnt", "/dl">>, downloadPath |-> EmptyPath,
     contentLayout |-> Original, operatingMode |-> AutoManaged,
     useAutoTMM |-> FALSE, firstLastPiecePriority |-> FALSE,
     hasFinishedStatus |-> FALSE, stopped |-> FALSE,
     stopCondition |-> StopConditionNone, ratioLimit |-> 15000,
     seedingTimeLimit |-> 30,
     ltAddTorrentParams |-> [flags |-> {}, save_path |-> <<"/mnt", "/dl">>, ti |-> FALSE]]

\* sets of tags: none, one, two, one holding the separator, the empty tag
TagSets ==
    {{}, {<<"a">>}, {<<"a">>, <<"b", "c">>}, {<<"a", Comma, "b">>}, {<<>>},
     {<<>>, <<"a">>}}

\* ratio limits in ten-thousandths: 1.5, 2.01, 1.0015, -1 (no limit), -2 (global)
RatioLimits == {15000, 20100, 10015, -10000, -20000}

\* The descriptors a StoreJob is given: the base descriptor with one group of
\* fields varied at a time.
Descriptors ==
    {[BaseDescriptor EXCEPT !.tags = t] : t \in TagSets}
    \cup {[BaseDescriptor EXCEPT !.stopped = st, !.operatingMode = m,
                                 !.ltAddTorrentParams.flags = f, !.ltAddTorrentParams.ti = ti]
            : <<st, m, f, ti>> \in BOOLEAN \X (1..Len(TorrentOperatingModeNames))
                                     \X (SUBSET TorrentFlags) \X BOOLEAN}
    \cup {[BaseDescriptor EXCEPT !.useAutoTMM = a, !.savePath = sp, !.downloadPath = dp]
            : <<a, sp, dp>> \in BOOLEAN \X Paths \X Paths}
    \cup {[BaseDescriptor EXCEPT !.ltAddTorrentParams.save_path = sp] : sp \in Paths}
    \cup {[BaseDescriptor EXCEPT !.contentLayout = cl, !.stopCondition = sc]
            : <<cl, sc>> \in (1..Len(TorrentContentLayoutNames)) \X (1..Len(StopConditionNames))}
    \cup {[BaseDescriptor EXCEPT !.ratioLimit = rl, !.seedingTimeLimit = tl]
            : <<rl, tl>> \in RatioLimits \X {-2, 30}}
    \cup {[BaseDescriptor EXCEPT !.firstLastPiecePriority = fl, !.hasFinishedStatus = fs,
                                 !.name = n, !.category = c]
            : <<fl, fs, n, c>> \in BOOLEAN \X BOOLEAN \X {<<>>, <<"n">>} \X {<<>>, <<"c">>}}

\* a row an earlier StoreJob wrote, with metadata
RowWithMetadata ==
    StoreJobRow(NoRow, [BaseDescriptor EXCEPT !.ltAddTorrentParams.ti = TRUE,
                                              !.name = <<"o">>, !.ratioLimit = -10000])

\* the same row with its resume blob cut short / emptied (a damaged file)
TruncatedBlob(blob) == SubSeq(blob, 1, Len(blob) - 1)

DamagedRows ==
    {[RowWithMetadata EXCEPT !.libtorrent_resume_data = SqlValue(TruncatedBlob(@.v))],
     [RowWithMetadata EXCEPT !.libtorrent_resume_data = SqlValue(<<>>)]}

\* The rows table torrents holds for one identifier when the codec is used
StoredRows ==
    {NoRow, RowWithMetadata, StoreJobRow(NoRow, BaseDescriptor)} \cup DamagedRows

\* ------------------------------------------------------------ store, then load
\* StoreJob::perform, the statement succeeding
KStore ==
    /\ kpc = "start"
    /\ row' = StoreJobRow(row, params)
    /\ kpc' = "stored"
    /\ UNCHANGED <<params, result, schemaVars, engineVars>>

\* StoreJob::perform, query.exec() failing: logged, nothing written
KStoreFailed ==
    /\ kpc = "start"
    /\ kpc' = "failed"
    /\ UNCHANGED <<params, row, result, schemaVars, engineVars>>

\* DBResumeDataStorage::load of the identifier
KLoad ==
    /\ kpc \in {"start", "stored", "failed"}
    /\ result' = [after |-> kpc, value |-> Load(row)]
    /\ kpc' = "loaded"
    /\ UNCHANGED <<params, row, schemaVars, engineVars>>

\* ------------------------------------------------------------ the database file
DB_VERSION == 4

\* the columns and the index that later versions added to table torrents
LateColumns == {"download_path", "stop_condition"}

\* the other columns, as far as the constructor and updateDB tell them apart
BaseColumns == {"torrent_id", "name"}

\* the columns of the schema of version v
SchemaColumns(v) ==
    BaseColumns \cup (IF v >= 2 THEN {"download_path"} ELSE {})
                \cup (IF v >= 3 THEN {"stop_condition"} ELSE {})

\* ALTER TABLE ... ADD `download_path` TEXT / `stop_condition` TEXT NOT NULL
\* DEFAULT `None`: the value the existing rows get
ColumnDefault(c) == IF c = "stop_condition" THEN "None" ELSE NULL

\* values rows hold that are no column's default
StoredValue(c, n) ==
    CASE c = "torrent_id" -> IF n = 1 THEN "t1" ELSE "t2"
      [] c = "name" -> "n"
      [] c = "download_path" -> "dl"
      [] c = "stop_condition" -> "FilesChecked"

RowsOfFile(columns, count) ==
    {[c \in columns |-> StoredValue(c, n)] : n \in 1..count}

\* the versions a meta table may record: older, current and newer ones
StoredVersions == 0..(DB_VERSION + 1)

\* the names of the rows a meta table may hold beside the version row
OtherMetaNames == {"k"}

\* the file db.open() creates when there is none, and a failed createDB
\* leaves: a database without tables
EmptyFile ==
    [exists |-> TRUE, meta |-> "missing", version |-> 0, others |-> {}, columns |-> {},
     index |-> FALSE, rows |-> {}]

\* Database files of earlier runs: meta's version row holds an integer, holds
\* something else, or is missing, other rows may be beside it; table torrents
\* has some of the late columns.
ExistingFiles ==
    {[exists |-> TRUE, meta |-> m[1], version |-> m[2], others |-> o,
      columns |-> BaseColumns \cup late,
      index |-> i, rows |-> RowsOfFile(BaseColumns \cup late, count)]
        : m \in ({"integer"} \X StoredVersions) \cup ({"garbage", "missing"} \X {0}),
          o \in SUBSET OtherMetaNames,
          late \in SUBSET LateColumns, i \in BOOLEAN, count \in 0..2}
    \cup {EmptyFile}

\* createDB: both tables, every column, the index, version = DB_VERSION
CreatedFile ==
    [exists |-> TRUE, meta |-> "integer", version |-> DB_VERSION, others |-> {},
     columns |-> BaseColumns \cup LateColumns, index |-> TRUE, rows |-> {}]

\* ALTER TABLE torrents ADD c ...
AddColumn(f, c) ==
    [f EXCEPT !.columns = @ \cup {c},
              !.rows = {[k \in DOMAIN r \cup {c} |-> IF k = c THEN ColumnDefault(c) ELSE r[k]]
                          : r \in @}]

\* SELECT COUNT(c) FROM torrents fails: the column is missing
TestQueryFails(f, c) == c \notin f.columns

\* faulty variant: the second step run for version 2 only
StepAppliesOnlyAt(from, last) == from = last

\* updateDB: `if (fromVersion == 1)` for the first step, `if (fromVersion <= n)`
\* for the later ones
StepApplies(from, last) == IF last = 1 THEN from = 1 ELSE from <= last

\* the number of rows of table meta
MetaRowCount(f) == (IF f.meta = "missing" THEN 0 ELSE 1) + Cardinality(f.others)

\* UPDATE meta SET (name, value) = ('version', DB_VERSION) has no WHERE clause:
\* it gives every row of meta the name 'version', which the UNIQUE constraint
\* on name rejects when meta has more than one row
ViolatesUnique(f) == MetaRowCount(f) > 1

\* ... and on success the one row there is, if any, is the version row
SetVersion(f) ==
    IF MetaRowCount(f) = 0 THEN f
    ELSE [f EXCEPT !.meta = "integer", !.version = DB_VERSION, !.others = {}]

\* ------------------------------------------------------------ the constructor
\* opc: "start", "createDB", "probe", "updateDB", "step1", "step2", "step3",
\* "bump", "commit", "startWorker": the statement the constructor is at;
\* "opened": it returned, the worker is started; "failedOpen", "failedCorrupt",
\* "failedStatement", "failedDuplicate": a RuntimeError left it, no worker was
\* created; "aborted": Q_ASSERT stopped the process.
OpenFailures == {"failedOpen", "failedCorrupt", "failedStatement", "failedDuplicate", "aborted"}

\* faulty variant: the exception rethrown without db.rollback()
RollbackMissing(error) ==
    /\ UNCHANGED file
    /\ opc' = error

\* createDB's and updateDB's catch block: rollback, rethrow
Rollback(error) ==
    /\ file' = (IF file0.exists THEN file0 ELSE EmptyFile)
    /\ opc' = error

\* needCreateDB, db.open()
OConstruct ==
    /\ opc = "start"
    /\ \/ /\ opc' = (IF file.exists THEN "probe" ELSE "createDB")
          /\ file' = (IF file.exists THEN file ELSE EmptyFile)
       \/ /\ opc' = "failedOpen"
          /\ UNCHANGED file
    /\ UNCHANGED <<file0, fromVersion, codecVars, engineVars>>

\* createDB in one transaction: commit, or rollback and rethrow
OCreateDB ==
    /\ opc = "createDB"
    /\ \/ file' = CreatedFile /\ opc' = "startWorker"
       \/ Rollback("failedStatement")
    /\ UNCHANGED <<file0, fromVersion, codecVars, engineVars>>

\* dbVersion: 1 when torrents has no download_path column, else
\* currentDBVersion(), which throws unless meta's version row holds an integer
OProbe ==
    /\ opc = "probe"
    /\ IF "download_path" \notin file.columns
       THEN /\ fromVersion' = 1
            /\ opc' = "updateDB"
       ELSE IF file.meta # "integer"
            THEN /\ opc' = "failedCorrupt"
                 /\ UNCHANGED fromVersion
            ELSE /\ fromVersion' = file.version
                 /\ opc' = (IF file.version < DB_VERSION THEN "updateDB" ELSE "startWorker")
    /\ UNCHANGED <<file, file0, codecVars, engineVars>>

\* updateDB: the assertion on fromVersion (compiled in or not), the write
\* locker, db.transaction()
OUpdateDB ==
    /\ opc = "updateDB"
    /\ \/ opc' = "step1"
       \/ opc' = "failedStatement"
       \/ fromVersion <= 0 /\ opc' = "aborted"
    /\ UNCHANGED <<file, file0, fromVersion, codecVars, engineVars>>

\* one ALTER TABLE step: run when the step applies to fromVersion and the test
\* query on the column fails; adding a column the table has is an error, and
\* so is adding one to a table that does not exist
AlterStep(last, column, next) ==
    IF StepApplies(fromVersion, last) /\ TestQueryFails(file, column)
    THEN IF column \in file.columns
         THEN Rollback("failedDuplicate")
         ELSE IF file.columns = {}
         THEN Rollback("failedStatement")
         ELSE \/ file' = AddColumn(file, column) /\ opc' = next
              \/ Rollback("failedStatement")
    ELSE /\ opc' = next
         /\ UNCHANGED file

OStep1 ==
    /\ opc = "step1"
    /\ AlterStep(1, "download_path", "step2")
    /\ UNCHANGED <<file0, fromVersion, codecVars, engineVars>>

OStep2 ==
    /\ opc = "step2"
    /\ AlterStep(2, "stop_condition", "step3")
    /\ UNCHANGED <<file0, fromVersion, codecVars, engineVars>>

\* CREATE INDEX IF NOT EXISTS
OStep3 ==
    /\ opc = "step3"
    /\ IF StepApplies(fromVersion, 3)
       THEN \/ file' = [file EXCEPT !.index = TRUE] /\ opc' = "bump"
            \/ Rollback("failedStatement")
       ELSE /\ opc' = "bump"
            /\ UNCHANGED file
    /\ UNCHANGED <<file0, fromVersion, codecVars, engineVars>>

OBump ==
    /\ opc = "bump"
    /\ \/ ~ViolatesUnique(file) /\ file' = SetVersion(file) /\ opc' = "commit"
       \/ Rollback("failedStatement")
    /\ UNCHANGED <<file0, fromVersion, codecVars, engineVars>>

OCommit ==
    /\ opc = "commit"
    /\ \/ opc' = "startWorker" /\ UNCHANGED file
       \/ Rollback("failedStatement")
    /\ UNCHANGED <<file0, fromVersion, codecVars, engineVars>>

\* new Worker, start(): the constructor returns
OStartWorker ==
    /\ opc = "startWorker"
    /\ opc' = "opened"
    /\ UNCHANGED <<file, file0, fromVersion, codecVars, engineVars>>

\* ------------------------------------------------------------ specification
Next == WorkerNext \/ ClientNext \/ LoaderNext

Spec == Init /\ [][Next]_vars

\* The worker and a client that enqueues jobs and calls load().
NextLoad == WorkerNext \/ CAddJobLoad \/ CAddJobWake \/ CLoad \/ CLoadReturn

SpecLoad == Init /\ [][NextLoad]_vars

\* The worker and a client that enqueues any job, on a database that may
\* hold rows of earlier runs.
NextJobs == WorkerNext \/ CAddJobAny \/ CAddJobWake

SpecJobs == InitExisting /\ [][NextJobs]_vars

\* The worker and a client that enqueues jobs, on an empty database.
NextBatch == WorkerNext \/ CAddJob \/ CAddJobWake

SpecBatch == Init /\ [][NextBatch]_vars

\* The worker and a client that enqueues jobs and then destroys the storage.
NextStop ==
    \/ WorkerNext
    \/ CAddJobLoad \/ CAddJobWake
    \/ CRequestInterruption \/ CInterruptWake \/ CWait

SpecStop == Init /\ [][NextStop]_vars

\* One StoreJob and load() of its identifier, one after the other, on a
\* table that holds no row, a stored row or a damaged row of the identifier.
InitCodec ==
    /\ EngineInit({})
    /\ SchemaOff
    /\ params \in Descriptors
    /\ row \in StoredRows
    /\ result = NoResult
    /\ kpc = "start"

NextCodec == KStore \/ KStoreFailed \/ KLoad

SpecCodec == InitCodec /\ [][NextCodec]_vars

\* Opening a database file: none, or one an earlier run left.
InitOpen ==
    /\ EngineInit({})
    /\ CodecOff
    /\ file \in {NoFile} \cup ExistingFiles
    /\ file0 = file
    /\ opc = "start"
    /\ fromVersion = 0

NextOpen ==
    \/ OConstruct
    \/ OCreateDB
    \/ OProbe
    \/ OUpdateDB
    \/ OStep1
    \/ OStep2
    \/ OStep3
    \/ OBump
    \/ OCommit
    \/ OStartWorker

SpecOpen == InitOpen /\ [][NextOpen]_vars

\* Scheduling: every thread that can take a step eventually takes it.  The
\* client is not obliged to call addJob, load or the destructor, nor the I/O
\* thread to start doLoadAll.
Fairness ==
    /\ WF_vars(WorkerNext)
    /\ WF_vars(CAddJobWake)
    /\ WF_vars(CInterruptWake)
    /\ WF_vars(CWait)
    /\ WF_vars(LSelectIDs \/ LSelectAll \/ LUnlock \/ LLoadFinished)

FairSpec == Spec /\ Fairness

TypeOK ==
    /\ jobsMutex \in {"free", "worker"}
    /\ wakeups \in {0, 1}
    /\ readerCount \in 0..MaxLoadAll
    /\ writerCount \in {0, 1}
    /\ ~inTransaction => wview = committed

\* ------------------------------------------------------------ histories
JobsOf(h) == [i \in 1..Len(h) |-> h[i].job]

IsPrefix(s, t) == Len(s) <= Len(t) /\ \A i \in 1..Len(s) : s[i] = t[i]

\* the table that performing the entries of h, one after another, makes of T
RECURSIVE Replay(_, _)
Replay(T, h) ==
    IF h = <<>> THEN T
    ELSE Perform(Replay(T, SubSeq(h, 1, Len(h) - 1)), h[Len(h)].job, h[Len(h)].done)

\* the number of performed jobs whose effects are not committed yet
Uncommitted == IF inTransaction THEN transactedJobsCount ELSE 0

CommittedHistory == SubSeq(performed, 1, Len(performed) - Uncommitted)

\* the queue is drained: the worker found it empty and committed
Drained ==
    /\ jobs = <<>>
    /\ wpc \in {"checkInterruption", "wait", "waiting"}
    /\ ~inTransaction

\* ------------------------------------------------------------ claims

\* C1: every job whose addJob call returned before requestInterruption() was
\* called has been performed and committed when the worker's loop has
\* terminated (leaving aside the exit on a failed db.transaction()).
C1_QueuedJobsDrainedBeforeExit ==
    (wpc = "done" /\ ~beginFailed) =>
        /\ jobs = <<>>
        /\ IsPrefix(enqueued, JobsOf(performed))
        /\ Uncommitted = 0

\* C2: once requestInterruption() has set the flag and signalled the wait
\* condition, the worker's loop eventually ends (normally, or by the process
\* aborting), so that the destructor's wait() can return.
C2_StopTerminates == (cpc = "wait") ~> (wpc \in {"done", "crashed"})

\* C3: the worker performs the jobs in the order of the addJob calls, none
\* skipped, duplicated or reordered, and once the queue is drained the
\* committed table is the one made by performing them in that order.
C3_PerformedInEnqueueOrder ==
    /\ IsPrefix(JobsOf(performed), enqueued)
    /\ (Drained /\ Len(performed) = Len(enqueued)) => committed = Replay({}, performed)

\* C4: the worker never holds m_jobsMutex while it waits for or takes the
\* write lock of m_dbLock, begins a transaction or commits one.
C4_MutexNotHeldAcrossDatabase ==
    ~(/\ jobsMutex = "worker"
      /\ \/ wpc = "lockForWrite"
         \/ wpc = "transaction"
         \/ wpc = "commit" /\ inTransaction)

\* C5: a load(id) that runs while a Store job for id is performed but not
\* committed returns what the committed jobs made of id's row (the last
\* committed row, or "Not found"), never what the uncommitted job wrote.
InFlightStore(tid) ==
    \E i \in (Len(performed) - Uncommitted + 1)..Len(performed) :
        /\ performed[i].job.type = "Store"
        /\ performed[i].job.torrentID = tid
        /\ performed[i].done = 1

C5_LoadIsolation ==
    [][\A tid \in TorrentIDs :
          (cpc = "idle" /\ cpc' = "loaded" /\ loaded'.id = tid /\ InFlightStore(tid))
              => loaded'.result = SelectTorrent(Replay({}, CommittedHistory), tid)]_vars

\* C5 witness: load(id) has returned the committed row of id while the
\* worker's open transaction holds a different row written by a Store job.
C5_Witness ==
    /\ cpc = "loaded"
    /\ InFlightStore(loaded.id)
    /\ loaded.result.found
    /\ loaded.result = SelectTorrent(committed, loaded.id)
    /\ SelectTorrent(wview, loaded.id) # loaded.result

\* C6: within one doLoadAll the onResumeDataLoaded calls are for exactly the
\* identifiers of the loadStarted list, in the same order.
LastStarted ==
    Max({i \in 1..Len(events) : events[i].type = "loadStarted"})

C6_LoadAllOneSnapshot ==
    lpc \in {"unlock", "loadFinished"} =>
        LET recs == SubSeq(events, LastStarted + 1, Len(events))
        IN [i \in 1..Len(recs) |-> recs[i].id] = events[LastStarted].ids

\* C7: loadFinished is never emitted after doLoadAll has released the read
\* lock of m_dbLock.
C7_FinishedUnderReadLock == (lpc = "loadFinished") => readerCount > 0

\* C8 (as claimed): once StoreQueueJob(ids) is performed and committed and no
\* later job has run, registeredTorrents() returns exactly ids, whatever rows
\* the table held.
StoreQueueDone(ids) ==
    /\ performed # <<>>
    /\ performed[Len(performed)].job = [type |-> "StoreQueue", queue |-> ids]
    /\ performed[Len(performed)].done = Len(ids)
    /\ Uncommitted = 0

C8_AnyRows ==
    \A ids \in Queues : StoreQueueDone(ids) => RegisteredTorrents(committed) = ids

\* C8 (amended): the same, for ids that are exactly the identifiers of the
\* rows of the table, every statement of the job having succeeded.
RowIds(T) == {r.torrent_id : r \in T}

C8_ExactlyTheRows ==
    \A ids \in Queues :
        (StoreQueueDone(ids) /\ {ids[i] : i \in 1..Len(ids)} = RowIds(committed))
            => RegisteredTorrents(committed) = ids

\* C8 witness: a committed reordering of two rows against their rowid order
C8_Witness ==
    /\ StoreQueueDone(<<"t2", "t1">>)
    /\ RowIds(committed) = {"t1", "t2"}
    /\ RegisteredTorrents(committed) = <<"t2", "t1">>
    /\ \A r \in committed : r.id = IF r.torrent_id = "t1" THEN 1 ELSE 2

\* C9: the table never holds two rows of one torrent, performing a Store job
\* twice leaves the table it leaves when performed once, and after Store(id, D)
\* was performed twice in a row the one row of id holds D's values.
HoldsValues(r, d) ==
    /\ r.data = d.data
    /\ r.metadata = IF d.ti THEN d.data ELSE NULL

StoredTwice(j) ==
    /\ Len(performed) >= 2
    /\ performed[Len(performed)] = [job |-> j, done |-> 1, stale |-> FALSE]
    /\ performed[Len(performed) - 1] = [job |-> j, done |-> 1, stale |-> FALSE]
    /\ Uncommitted = 0

C9_UpsertIdempotent ==
    /\ \A tid \in TorrentIDs : Cardinality(RowsOf(committed, tid)) <= 1
    /\ \A j \in StoreJobs :
          /\ StoreJobPerform(StoreJobPerform(committed, j), j) = StoreJobPerform(committed, j)
          /\ StoredTwice(j) =>
                /\ Cardinality(RowsOf(committed, j.torrentID)) = 1
                /\ \A r \in RowsOf(committed, j.torrentID) : HoldsValues(r, j.resumeData)

\* C10: once the queue is drained, the row of an identifier has a metadata
\* blob if and only if the last Store job performed for it carried metadata.
LastStoreOf(tid) ==
    LET S == {i \in 1..Len(performed) :
                 /\ performed[i].job.type = "Store"
                 /\ performed[i].job.torrentID = tid
                 /\ performed[i].done = 1}
    IN IF S = {} THEN 0 ELSE Max(S)

C10_MetadataIffLastStoreHadIt ==
    Drained =>
        \A tid \in TorrentIDs :
            \A r \in RowsOf(committed, tid) :
                LastStoreOf(tid) > 0 =>
                    (r.metadata # NULL <=> performed[LastStoreOf(tid)].job.resumeData.ti)

\* C11: load returns "Not found" when the identifier has no row, an error
\* whenever the row's resume blob fails to decode, and a record only when the
\* blob decoded.
BlobFailsToDecode(r) ==
    ReadResumeData(Bdecode(ValueToByteArray(r.libtorrent_resume_data))).ec

C11_LoadReportsCorruptBlob ==
    kpc = "loaded" =>
        /\ ~row.present => (result.value.kind = "error" /\ result.value.message = "Not found.")
        /\ (row.present /\ BlobFailsToDecode(row)) => result.value.kind = "error"
        /\ result.value.kind = "record" => ~BlobFailsToDecode(row)

\* C12: once the constructor has returned on a database file that existed before,
\* whatever version its meta table recorded, the stored version is DB_VERSION;
\* otherwise the constructor has failed and started no worker.
C12_OpenedAtCurrentVersion ==
    (opc = "opened" /\ file0.exists) =>
        (file.meta = "integer" /\ file.version = DB_VERSION)


\* C13: opening a file whose meta table records a version v in 1..3 and whose
\* table has at least the columns of version v ends with both late columns and
\* the index present, version DB_VERSION, every row that was there still there
\* with the values it had, the added columns holding their defaults
\* (stop_condition: None); no step fails on a column that exists already.
IsOfVersion(f, v) ==
    /\ f.exists
    /\ f.meta = "integer"
    /\ f.version = v
    /\ SchemaColumns(v) \subseteq f.columns

Migrated(old, new) ==
    /\ new.columns = BaseColumns \cup LateColumns
    /\ new.index
    /\ new.meta = "integer"
    /\ new.version = DB_VERSION
    /\ Cardinality(new.rows) = Cardinality(old.rows)
    /\ \A r0 \in old.rows : \E r \in new.rows :
          /\ DOMAIN r = new.columns
          /\ \A c \in DOMAIN r0 : r[c] = r0[c]
          /\ \A c \in new.columns \ DOMAIN r0 : r[c] = ColumnDefault(c)

C13_MigrationAddsWhatIsMissing ==
    \A v \in 1..(DB_VERSION - 1) :
        IsOfVersion(file0, v) =>
            /\ opc # "failedDuplicate"
            /\ opc \in {"startWorker", "opened"} => Migrated(file0, file)

\* a version 1 file with two rows, no late column and no index was opened
C13_Witness ==
    /\ opc = "opened"
    /\ IsOfVersion(file0, 1)
    /\ file0.columns = BaseColumns
    /\ ~file0.index
    /\ Cardinality(file0.rows) = 2
    /\ Migrated(file0, file)


\* C14: a job that fails neither stops the worker nor rolls anything back nor
\* is put back in the queue: the worker goes on with its loop, the transaction
\* stays as it was, and what the worker has written, and what it commits, are
\* the effects of the successful statements of all the jobs performed, those
\* before and those after the failed one.
RECURSIVE Effects(_, _)
Effects(T, h) ==
    IF h = <<>> THEN T
    ELSE LET e == h[Len(h)]
             B == Effects(T, SubSeq(h, 1, Len(h) - 1))
         IN  CASE e.job.type = "Store" -> IF e.done = 1 THEN StoreJobPerform(B, e.job) ELSE B
               [] e.job.type = "Remove" -> IF e.done = 1 THEN RemoveJobPerform(B, e.job) ELSE B
               [] e.job.type = "StoreQueue" -> StoreQueueJobPerform(B, e.job.queue, e.done)

Failed(e) == e.done < NumStatements(e.job)

C14_FailedJobIsSkipped ==
    [][/\ Len(performed') > Len(performed) =>
            /\ wpc' = "lock"
            /\ jobs' = jobs
            /\ inTransaction' = inTransaction
            /\ wview' = Effects({}, performed')
            /\ inTransaction => committed' = committed
       /\ wpc = "commit" /\ wpc' # "commit" => committed' = Effects({}, performed)]_vars

\* three jobs performed in one transaction, the second of them failed, the
\* first and the third changed the table, and the worker is about to commit
C14_Witness ==
    /\ Len(performed) = 3
    /\ ~Failed(performed[1])
    /\ Failed(performed[2])
    /\ ~Failed(performed[3])
    /\ Effects({}, SubSeq(performed, 1, 1)) # {}
    /\ Effects({}, performed) # Effects({}, SubSeq(performed, 1, 1))
    /\ wpc = "commit"
    /\ inTransaction
    /\ transactedJobsCount = 3
    /\ wview = Effects({}, performed)


\* C15: performing a Remove job leaves the worker in its loop; when the
\* identifier has no row, or the statement fails, the table is as it was; when
\* it has one and the statement succeeds, that row is gone and every other row
\* is as it was.
C15_RemoveDeletesExactlyTheRow ==
    [][(Len(performed') > Len(performed) /\ job.type = "Remove") =>
          LET e == performed'[Len(performed')]
              rows == RowsOf(wview, job.torrentID)
          IN  /\ wpc' = "lock"
              /\ (rows = {} \/ e.done = 0) => wview' = wview
              /\ (rows # {} /\ e.done = 1) =>
                    /\ RowsOf(wview', job.torrentID) = {}
                    /\ wview' = wview \ rows]_vars

\* a row of t1 was stored and then removed beside a row of t2, which is there
C15_Witness ==
    /\ Len(performed) = 2
    /\ performed[1].job.type = "Store" /\ performed[1].job.torrentID = "t1"
    /\ performed[1].done = 1
    /\ performed[2].job.type = "Remove" /\ performed[2].job.torrentID = "t1"
    /\ performed[2].done = 1
    /\ RowsOf(wview, "t1") = {}
    /\ RowsOf(wview, "t2") # {}


\* C16: a descriptor D stored and then loaded comes back with the name,
\* category, tags, content layout, operating mode, stop condition, stopped,
\* first/last piece priority, finished status, seeding time limit, ratio limit
\* (to three decimals), save path, download path and automatic management of
\* D, the paths compared in their portable form and the stop condition being
\* FilesChecked when D's flags hold stop_when_ready.
RoundTripEqual(L, D) ==
    /\ L.name = D.name
    /\ L.category = D.category
    /\ L.tags = D.tags
    /\ L.contentLayout = D.contentLayout
    /\ L.operatingMode = D.operatingMode
    /\ L.stopCondition = (IF "stop_when_ready" \in D.ltAddTorrentParams.flags
                          THEN FilesChecked ELSE D.stopCondition)
    /\ L.stopped = D.stopped
    /\ L.firstLastPiecePriority = D.firstLastPiecePriority
    /\ L.hasFinishedStatus = D.hasFinishedStatus
    /\ L.seedingTimeLimit = D.seedingTimeLimit
    /\ TruncDiv(L.ratioLimit, 10) = TruncDiv(D.ratioLimit, 10)
    /\ ToPortablePath(L.savePath) = ToPortablePath(D.savePath)
    /\ ToPortablePath(L.downloadPath) = ToPortablePath(D.downloadPath)
    /\ L.useAutoTMM = D.useAutoTMM

LoadedAfterStore == kpc = "loaded" /\ result.after = "stored"

C16_FieldsRoundTrip ==
    LoadedAfterStore =>
        /\ result.value.kind = "record"
        /\ RoundTripEqual(result.value.params, params)


\* C17: the flags in the resume blob a StoreJob writes are D's flags with:
\* paused set and auto_managed cleared when D is stopped; auto_managed set and
\* paused as in D when D is not stopped and its operating mode is AutoManaged;
\* both cleared when D is not stopped and its mode is another.  load returns
\* the paused and auto_managed flags of the blob, and D's stopped.
WrittenFlags == ReadResumeData(Bdecode(ValueToByteArray(row.libtorrent_resume_data))).p.flags

Managed == {"paused", "auto_managed"}

C17_FlagsNormalized ==
    LoadedAfterStore =>
        LET D == params
            F == D.ltAddTorrentParams.flags
            W == WrittenFlags
            L == result.value.params
        IN  /\ D.stopped => W \cap Managed = {"paused"}
            /\ (~D.stopped /\ D.operatingMode = AutoManaged) =>
                  W \cap Managed = {"auto_managed"} \cup (F \cap {"paused"})
            /\ (~D.stopped /\ D.operatingMode # AutoManaged) => W \cap Managed = {}
            /\ W \ Managed = F \ Managed
            /\ L.ltAddTorrentParams.flags \cap Managed = W \cap Managed
            /\ L.stopped = D.stopped

\* stored with stopped = false, AutoManaged and the flag not set; loaded with
\* stopped = false and auto_managed set
C17_Witness ==
    /\ LoadedAfterStore
    /\ ~params.stopped
    /\ params.operatingMode = AutoManaged
    /\ "auto_managed" \notin params.ltAddTorrentParams.flags
    /\ ~result.value.params.stopped
    /\ "auto_managed" \in result.value.params.ltAddTorrentParams.flags


\* C18: the events of every doLoadAll are one loadStarted, then one
\* resumeDataLoaded for each row in ascending queue position (none when the
\* table has no row, loadStarted then carrying the empty list), then one
\* loadFinished; a doLoadAll that has ended has followed its loadStarted by
\* loadFinished.
\* each loadStarted is followed by resumeDataLoaded events and a loadFinished,
\* and nothing else is emitted
Bracketed(evs) ==
    /\ \A i \in 1..Len(evs) :
          /\ evs[i].type = "loadStarted" =>
                \E k \in (i + 1)..Len(evs) :
                    /\ evs[k].type = "loadFinished"
                    /\ \A m \in (i + 1)..(k - 1) : evs[m].type = "resumeDataLoaded"
          /\ evs[i].type # "loadStarted" => (i > 1 /\ evs[i - 1].type # "loadFinished")

C18_LoadAllEvents ==
    [][/\ (lpc = "selectIDs" /\ lpc' = "selectAll") =>
            /\ Len(events') = Len(events) + 1
            /\ events'[Len(events')].type = "loadStarted"
            /\ committed = {} => events'[Len(events')].ids = <<>>
       /\ (lpc = "selectAll" /\ lpc' = "unlock") =>
            LET rows == OrderByQueuePosition(committed)
                recs == SubSeq(events', Len(events) + 1, Len(events'))
            IN  /\ events[Len(events)].type = "loadStarted"
                /\ Len(recs) = Cardinality(committed)
                /\ \A i \in 1..Len(recs) :
                      recs[i] = [type |-> "resumeDataLoaded", id |-> rows[i].torrent_id]
                /\ \A i \in 1..(Len(rows) - 1) :
                      rows[i].queue_position <= rows[i + 1].queue_position
       /\ (lpc # lpc' /\ lpc' \in {"idle", "thrown"}) => Bracketed(events')]_vars


\* C19: whenever the worker performs a job it holds the write lock of m_dbLock
\* and its connection has an open transaction, also for a job that was in the
\* queue when the worker first locked m_jobsMutex.
C19_PerformUnderLockAndTransaction ==
    wpc \in {"perform", "performStale"} => (writerCount = 1 /\ inTransaction)

C21_CommitOnlyOnEmptyQueue ==
    [][committed' # committed =>
          /\ wpc = "commit"
          /\ jobsMutex = "worker"
          /\ jobs = <<>>
          /\ committed' = wview]_vars


\* C22: a StoreQueueJob changes queue positions only.  With the first k
\* statements succeeding (all of them when none fails), the row of the i-th
\* listed identifier, i <= k, has queue position i - 1; a listed identifier
\* without a row gets no row; every other row keeps its queue position; the
\* other columns of every row are as they were.
PositionIn(q, k, tid) == CHOOSE i \in 1..k : q[i] = tid

Reordered(T, U, q, k) ==
    /\ {r.id : r \in U} = {r.id : r \in T}
    /\ Cardinality(U) = Cardinality(T)
    /\ \A r \in T : \E u \in U :
          /\ u.id = r.id
          /\ u.torrent_id = r.torrent_id
          /\ u.data = r.data
          /\ u.metadata = r.metadata
          /\ u.queue_position =
                (IF \E i \in 1..k : q[i] = r.torrent_id
                    THEN PositionIn(q, k, r.torrent_id) - 1
                    ELSE r.queue_position)

C22_ReorderTouchesOnlyPositions ==
    [][(Len(performed') > Len(performed) /\ job.type = "StoreQueue") =>
          Reordered(wview, wview', job.queue, performed'[Len(performed')].done)]_vars

\* two rows were given new positions by a job that also listed them in a new order
C22_Witness ==
    /\ performed # <<>>
    /\ LET e == performed[Len(performed)]
       IN /\ e.job.type = "StoreQueue"
          /\ e.job.queue = <<"t2", "t1">>
          /\ e.done = 2
    /\ \E r \in wview : r.torrent_id = "t2" /\ r.queue_position = 0 /\ r.id = 2
    /\ \E r \in wview : r.torrent_id = "t1" /\ r.queue_position = 1 /\ r.metadata = "d1"


\* C23: when a statement of updateDB or createDB fails, the constructor fails
\* and tables, stored version and rows are what they were before it ran; the
\* worker is started only on a file that was left alone, wholly created or
\* wholly migrated.
Contents(f) == IF f.exists THEN f ELSE EmptyFile

\* the whole of updateDB(from) on f, no statement failing
WhollyMigrated(f, from) ==
    LET Added(g, last, column) ==
            IF StepApplies(from, last) /\ TestQueryFails(g, column)
               THEN AddColumn(g, column) ELSE g
        f1 == Added(f, 1, "download_path")
        f2 == Added(f1, 2, "stop_condition")
        f3 == IF StepApplies(from, 3) THEN [f2 EXCEPT !.index = TRUE] ELSE f2
    IN SetVersion(f3)

C23_FailureRollsBack ==
    /\ opc \in OpenFailures => Contents(file) = Contents(file0)
    /\ opc \in {"startWorker", "opened"} =>
          IF ~file0.exists THEN file = CreatedFile
          ELSE IF fromVersion < DB_VERSION THEN file = WhollyMigrated(file0, fromVersion)
          ELSE file = file0

\* a statement failed while a version 1 file with rows was migrated
C23_Witness ==
    /\ opc = "failedStatement"
    /\ IsOfVersion(file0, 1)
    /\ file0.columns = BaseColumns
    /\ Cardinality(file0.rows) = 2
    /\ file = file0


\* C24: unless the destructor has requested the interruption or
\* db.transaction() has failed, the system returns again and again to the
\* state in which every enqueued job has been performed and committed: the
\* queue is empty, no transaction is open and the write lock is free.
Quiescent ==
    /\ jobs = <<>>
    /\ Len(performed) >= Len(enqueued)
    /\ ~inTransaction
    /\ writerCount = 0
    /\ committed = wview

C24_EveryJobCommitted ==
    []<>(Quiescent \/ interruptionRequested \/ beginFailed)


\* C25: whenever the worker is about to run db.commit(); m_dbLock.unlock(), it
\* holds the write lock by a lockForWrite() of its own and the transaction it
\* began is open.
C25_UnlockOnlyWhatIsHeld ==
    wpc = "commit" => (writerCount = 1 /\ inTransaction)

\* C26: when the worker has left its loop, by whichever break, it does not
\* hold m_jobsMutex, so addJob can still lock it and return.
C26_MutexReleasedOnExit ==
    wpc = "done" => jobsMutex # "worker"


\* C27: a StoreJob leaves the queue position of every row as it was, so the
\* order registeredTorrents() gives to the identifiers stored before is as it
\* was; the row it creates for an identifier that had none has queue position -1.
Among(ids, T) ==
    LET Stored(tid) == RowsOf(T, tid) # {}
    IN SelectSeq(ids, Stored)

C27_StoreKeepsQueuePosition ==
    [][(Len(performed') > Len(performed) /\ job.type = "Store") =>
          /\ \A r \in wview : \E u \in wview' :
                /\ u.id = r.id
                /\ u.torrent_id = r.torrent_id
                /\ u.queue_position = r.queue_position
          /\ Among(RegisteredTorrents(wview'), wview) = RegisteredTorrents(wview)
          /\ \A u \in wview' :
                (\A r \in wview : r.id # u.id) =>
                    (u.torrent_id = job.torrentID /\ u.queue_position = -1)
          /\ Cardinality(wview') <= Cardinality(wview) + 1]_vars

\* the row of t1, at queue position 0, was stored anew and is at position 0
C27_Witness ==
    /\ performed # <<>>
    /\ LET e == performed[Len(performed)]
       IN /\ e.job.type = "Store"
          /\ e.job.torrentID = "t1"
          /\ e.job.resumeData.data = "d2"
          /\ e.done = 1
    /\ \E r \in wview : r.torrent_id = "t1" /\ r.queue_position = 0 /\ r.data = "d2"
    /\ \E r \in wview : r.torrent_id = "t2" /\ r.queue_position = 1


\* C28: the version bump that ends a migration can succeed whatever other rows
\* the meta table holds, and when it succeeds every other row of the meta
\* table is as it was.
C28_BumpChangesOnlyVersionRow ==
    [][opc = "bump" =>
          /\ ENABLED (OBump /\ opc' = "commit")
          /\ opc' = "commit" => file'.others = file.others]_vars


====
